---- MODULE Spec2Model ----
(***************************************************************************)
(* ReelAutoScroll: a browser content script that advances a feed of reels  *)
(* when a video ends (v1.2, src/content.js) or when a video ends or the    *)
(* word "next" is spoken (v1.3, src/unnamed/part_000).                     *)
(*                                                                         *)
(* The page is a forest of element nodes (children lists give document     *)
(* order); node BODY is document.body and is always in the document.       *)
(* Every script callback is one atomic action (single-threaded event       *)
(* loop).  `out` records what the last callback did to the page.           *)
(***************************************************************************)
EXTENDS Integers, Sequences, FiniteSets, TLC

VARIABLES
    variant,        \* "v12" (src/content.js) or "v13" (src/unnamed/part_000)
    platform,       \* speech capability of the host: "unsupported", "denied", "granted"
    tag,            \* node -> tag name ("body", "main", "div", "video", "#text")
    ariaLabel,      \* node -> aria-label, a sequence of characters (<<>>: none)
    scrollHeight,   \* node -> element.scrollHeight
    clientHeight,   \* node -> element.clientHeight
    rectTop,        \* node -> getBoundingClientRect().top
    rectHeight,     \* node -> getBoundingClientRect().height
    children,       \* node -> sequence of child nodes (the live DOM tree)
    marker,         \* node -> dataset.autoScrollListenerAttached is set
    listeners,      \* node -> number of 'ended' listeners the script attached
    observing,      \* the MutationObserver is registered on document.body
    pending,        \* mutation records queued for the observer callback
    pc,             \* "load" before the content script ran, "running" after
    recognition,    \* "none", "idle", "started", "ending" (end event pending)
    atLoad,         \* the video elements that were in the document at script load
    out             \* what the last step did (handler, inputs, page effects)

vars == <<variant, platform, tag, ariaLabel, scrollHeight, clientHeight, rectTop,
          rectHeight, children, marker, listeners, observing, pending, pc,
          recognition, atLoad, out>>

page == <<variant, platform, tag, ariaLabel, scrollHeight, clientHeight, rectTop,
          rectHeight>>

----------------------------------------------------------------------------
(* Bounds of the model *)

\* most mutation records that queue up before the observer callback runs
MaxPending == 2
\* most results a recognition result event carries (event.results.length)
MaxResults == 2

(* Program constants *)

\* for (let i = 0; i < 15 && parent; i++)
MaxLevels == 15
\* parent.scrollHeight > parent.clientHeight + 50
Buffer == 50
\* recognition.maxAlternatives = 1
maxAlternatives == 1
\* window.innerHeight of the modelled viewport
innerHeight == 600

BODY == 0
NULL == -1

NEXT_BUTTON_SELECTOR == "[aria-label*=Next]"
REEL_VIDEO_SELECTOR == "video"
REELS_CONTAINER_SELECTOR == "main"

----------------------------------------------------------------------------
(* Strings are sequences of one-character strings *)

Str_Next == <<"N", "e", "x", "t">>
Str_next == <<"n", "e", "x", "t">>

Range(s) == {s[i] : i \in DOMAIN s}

\* String.prototype.includes / the CSS *= operator: case-sensitive substring
Contains(s, sub) ==
    \E i \in 1..(Len(s) - Len(sub) + 1) : SubSeq(s, i, i + Len(sub) - 1) = sub

IsSpace(c) == c \in {" ", "\t", "\n"}

RECURSIVE TrimStart(_)
TrimStart(s) ==
    IF s # <<>> /\ IsSpace(Head(s)) THEN TrimStart(Tail(s)) ELSE s

RECURSIVE TrimEnd(_)
TrimEnd(s) ==
    IF s # <<>> /\ IsSpace(s[Len(s)]) THEN TrimEnd(SubSeq(s, 1, Len(s) - 1)) ELSE s

\* String.prototype.trim
Trim(s) == TrimEnd(TrimStart(s))

LowerChar(c) ==
    CASE c = "N" -> "n"
      [] c = "E" -> "e"
      [] c = "X" -> "x"
      [] c = "T" -> "t"
      [] c = "P" -> "p"
      [] c = "O" -> "o"
      [] OTHER -> c

\* String.prototype.toLowerCase
ToLowerCase(s) == [i \in DOMAIN s |-> LowerChar(s[i])]

----------------------------------------------------------------------------
(* The DOM *)

AllNodes == DOMAIN children

\* node.parentElement (null for a detached root and for BODY)
ParentElement(n) ==
    IF \E p \in AllNodes : n \in Range(children[p])
    THEN CHOOSE p \in AllNodes : n \in Range(children[p])
    ELSE NULL

\* the nodes of the subtrees rooted at the nodes of ns, in document order
RECURSIVE SubtreeSeq(_)
SubtreeSeq(ns) ==
    IF ns = <<>> THEN <<>>
    ELSE <<Head(ns)>> \o SubtreeSeq(children[Head(ns)]) \o SubtreeSeq(Tail(ns))

Subtree(n) == SubtreeSeq(<<n>>)

Descendants(n) == SubtreeSeq(children[n])

InDocument(n) == n \in Range(Subtree(BODY))

IsElement(n) == tag[n] # "#text"

\* element.matches(selector) for the three selectors of the script
Matches(n, selector) ==
    /\ IsElement(n)
    /\ CASE selector = NEXT_BUTTON_SELECTOR -> Contains(ariaLabel[n], Str_Next)
         [] selector = REEL_VIDEO_SELECTOR -> tag[n] = "video"
         [] selector = REELS_CONTAINER_SELECTOR -> tag[n] = "main"
         [] OTHER -> FALSE

SelectMatching(ns, selector) == SelectSeq(ns, LAMBDA n : Matches(n, selector))

\* document.querySelectorAll(selector): the whole document, in document order
DocQuerySelectorAll(selector) == SelectMatching(Subtree(BODY), selector)

\* document.querySelector(selector): the first match, or null
DocQuerySelector(selector) ==
    LET found == DocQuerySelectorAll(selector)
    IN  IF found = <<>> THEN NULL ELSE Head(found)

\* node.querySelectorAll(selector): the descendants of node only
QuerySelectorAll(n, selector) == SelectMatching(Descendants(n), selector)

----------------------------------------------------------------------------
(* Effects a callback has on the page *)

Click(n) ==
    [type |-> "click", node |-> n, top |-> 0, left |-> 0, behavior |-> "none"]

\* element.scrollBy({top, left, behavior})
ScrollByOptions(n, t, l, b) ==
    [type |-> "scrollBy", node |-> n, top |-> t, left |-> l, behavior |-> b]

\* window.scrollBy(x, y): no options, so the default ("auto") behaviour
WindowScrollBy(x, y) ==
    [type |-> "window.scrollBy", node |-> NULL, top |-> y, left |-> x,
     behavior |-> "auto"]

----------------------------------------------------------------------------
(* Advancement: scrollToNextReel *)

\* what one call of scrollToNextReel does: page effects and console.error lines
Did(effects, errors) == [effects |-> effects, errors |-> errors]

\* a slip: the 50 pixel buffer is left out
IsScrollable_NoBuffer(parent) == scrollHeight[parent] > clientHeight[parent]

\* the element is scrollable: scrollHeight > clientHeight + 50
IsScrollable(parent) == scrollHeight[parent] > clientHeight[parent] + Buffer

\* a slip: the loop runs while i <= 15, one level too many
RECURSIVE FindScrollableContainer_OneMore(_, _)
FindScrollableContainer_OneMore(i, parent) ==
    IF i <= MaxLevels /\ parent # NULL
    THEN IF IsScrollable(parent)
         THEN parent
         ELSE FindScrollableContainer_OneMore(i + 1, ParentElement(parent))
    ELSE NULL

\* for (let i = 0; i < 15 && parent; i++) { if (scrollable) break; parent = parent.parentElement }
RECURSIVE FindScrollableContainer(_, _)
FindScrollableContainer(i, parent) ==
    IF i < MaxLevels /\ parent # NULL
    THEN IF IsScrollable(parent)
         THEN parent
         ELSE FindScrollableContainer(i + 1, ParentElement(parent))
    ELSE NULL

\* Math.max(0, Math.min(rect.bottom, window.innerHeight) - Math.max(rect.top, 0))
Min(a, b) == IF a < b THEN a ELSE b
Max(a, b) == IF a > b THEN a ELSE b
RectBottom(video) == rectTop[video] + rectHeight[video]
VisibleHeight(video) ==
    Max(0, Min(RectBottom(video), innerHeight) - Max(rectTop[video], 0))

\* a slip: a video as visible as the best so far replaces it
VisibilityGreater_OrEqual(video, maxNum, maxDen) ==
    /\ rectHeight[video] # 0
    /\ VisibleHeight(video) * maxDen >= maxNum * rectHeight[video]

\* visibility > maxVisibility, for visibility = visibleHeight / rect.height and
\* maxVisibility = maxNum / maxDen (maxDen > 0).  A height of 0 gives 0 / 0 = NaN,
\* and NaN > x is false.
VisibilityGreater(video, maxNum, maxDen) ==
    /\ rectHeight[video] # 0
    /\ VisibleHeight(video) * maxDen > maxNum * rectHeight[video]

\* for (const video of videos) { ... if (visibility > maxVisibility) { ... } }
RECURSIVE MostVisibleVideo(_, _, _, _)
MostVisibleVideo(videos, maxNum, maxDen, currentVideo) ==
    IF videos = <<>> THEN currentVideo
    ELSE LET video == Head(videos)
         IN  IF VisibilityGreater(video, maxNum, maxDen)
             THEN MostVisibleVideo(Tail(videos), VisibleHeight(video),
                                   rectHeight[video], video)
             ELSE MostVisibleVideo(Tail(videos), maxNum, maxDen, currentVideo)

\* let currentVideo = null; ...; let maxVisibility = 0; for (...) {...}
CurrentVideo13 ==
    MostVisibleVideo(DocQuerySelectorAll(REEL_VIDEO_SELECTOR), 0, 1, NULL)

\* the currentVideo of a call of scrollToNextReel: event.target in v1.2, the
\* outcome of the visibility scan in v1.3; NULL when Method 1 returned first
Method2Video(target) ==
    IF DocQuerySelector(NEXT_BUTTON_SELECTOR) # NULL THEN NULL
    ELSE IF variant = "v12" THEN target ELSE CurrentVideo13

\* Method 2 and 3 of v1.2: event.target is the video that ended
ScrollFromTarget12(currentVideo) ==
    IF currentVideo = NULL
    THEN Did(<<>>, <<"Could not identify the video that ended.">>)
    ELSE LET scrollableContainer ==
                 FindScrollableContainer(0, ParentElement(currentVideo))
         IN  IF scrollableContainer # NULL
             THEN Did(<<ScrollByOptions(scrollableContainer,
                                        clientHeight[scrollableContainer], 0,
                                        "smooth")>>, <<>>)
             ELSE Did(<<WindowScrollBy(0, innerHeight)>>, <<>>)

\* a slip: the return after nextButton.click() is left out
ScrollToNextReel12_NoReturn(target) ==
    LET nextButton == DocQuerySelector(NEXT_BUTTON_SELECTOR)
        rest == ScrollFromTarget12(target)
    IN  IF nextButton # NULL
        THEN Did(<<Click(nextButton)>> \o rest.effects, rest.errors)
        ELSE rest

\* scrollToNextReel(event) of v1.2
ScrollToNextReel12(target) ==
    LET nextButton == DocQuerySelector(NEXT_BUTTON_SELECTOR)
    IN  IF nextButton # NULL
        THEN Did(<<Click(nextButton)>>, <<>>)
        ELSE ScrollFromTarget12(target)

\* a slip: without a visible video nothing is scrolled
ScrollFromVisible13_NoFallback ==
    LET currentVideo == CurrentVideo13
    IN  IF currentVideo = NULL
        THEN Did(<<>>,
                 <<"Method 2 Failed: Could not find a visible video to scroll from.">>)
        ELSE LET scrollableContainer ==
                     FindScrollableContainer(0, ParentElement(currentVideo))
             IN  IF scrollableContainer # NULL
                 THEN Did(<<ScrollByOptions(scrollableContainer,
                                            clientHeight[scrollableContainer], 0,
                                            "smooth")>>, <<>>)
                 ELSE Did(<<>>,
                          <<"Method 2 Failed: Could not find a scrollable container for the visible video.">>)

\* Method 2 and 3 of v1.3: the most visible video of the document
ScrollFromVisible13 ==
    LET currentVideo == CurrentVideo13
    IN  IF currentVideo = NULL
        THEN Did(<<WindowScrollBy(0, innerHeight)>>,
                 <<"Method 2 Failed: Could not find a visible video to scroll from.">>)
        ELSE LET scrollableContainer ==
                     FindScrollableContainer(0, ParentElement(currentVideo))
             IN  IF scrollableContainer # NULL
                 THEN Did(<<ScrollByOptions(scrollableContainer,
                                            clientHeight[scrollableContainer], 0,
                                            "smooth")>>, <<>>)
                 ELSE Did(<<>>,
                          <<"Method 2 Failed: Could not find a scrollable container for the visible video.">>)

\* scrollToNextReel() of v1.3
ScrollToNextReel13 ==
    LET nextButton == DocQuerySelector(NEXT_BUTTON_SELECTOR)
    IN  IF nextButton # NULL
        THEN Did(<<Click(nextButton)>>, <<>>)
        ELSE ScrollFromVisible13

\* the 'ended' listener: scrollToNextReel itself in v1.2 (it receives the event),
\* () => scrollToNextReel() in v1.3 (the event is dropped)
EndedListener(video) ==
    IF variant = "v12" THEN ScrollToNextReel12(video) ELSE ScrollToNextReel13

\* k listeners of one element run one after the other
RECURSIVE Times(_, _)
Times(k, s) == IF k = 0 THEN <<>> ELSE s \o Times(k - 1, s)

----------------------------------------------------------------------------
(* DOM watcher: addListenerToVideo, handleDomChanges *)

Wiring(m, l) == [marker |-> m, listeners |-> l]

\* videoElement.addEventListener('ended', listener).  v1.2 passes the one function
\* scrollToNextReel, and the DOM ignores a listener that is already registered;
\* v1.3 passes a fresh arrow function each time, which always adds one.
AddEventListener(count) ==
    IF variant = "v12" THEN (IF count = 0 THEN 1 ELSE count) ELSE count + 1

\* a slip: the marker is written but never read
AddListenerToVideo_NoMarkerCheck(w, videoElement) ==
    Wiring([w.marker EXCEPT ![videoElement] = TRUE],
           [w.listeners EXCEPT ![videoElement] = AddEventListener(@)])

\* a slip: the listener is attached but the marker is never written
AddListenerToVideo_NoMarkerSet(w, videoElement) ==
    IF w.marker[videoElement]
    THEN w
    ELSE Wiring(w.marker,
                [w.listeners EXCEPT ![videoElement] = AddEventListener(@)])

\* addListenerToVideo(videoElement)
AddListenerToVideo(w, videoElement) ==
    IF w.marker[videoElement]
    THEN w
    ELSE Wiring([w.marker EXCEPT ![videoElement] = TRUE],
                [w.listeners EXCEPT ![videoElement] = AddEventListener(@)])

\* videos.forEach(addListenerToVideo)
RECURSIVE ForEachAddListener(_, _)
ForEachAddListener(w, videos) ==
    IF videos = <<>> THEN w
    ELSE ForEachAddListener(AddListenerToVideo(w, Head(videos)), Tail(videos))

\* a slip: only the added node itself is looked at, never its descendants
HandleAddedNode_NoDescendants(w, node) ==
    IF IsElement(node) /\ Matches(node, REEL_VIDEO_SELECTOR)
    THEN AddListenerToVideo(w, node)
    ELSE w

\* the body of mutation.addedNodes.forEach(node => ...)
HandleAddedNode(w, node) ==
    IF IsElement(node)
    THEN IF Matches(node, REEL_VIDEO_SELECTOR)
         THEN AddListenerToVideo(w, node)
         ELSE ForEachAddListener(w, QuerySelectorAll(node, REEL_VIDEO_SELECTOR))
    ELSE w

RECURSIVE ForEachAddedNode(_, _)
ForEachAddedNode(w, nodes) ==
    IF nodes = <<>> THEN w
    ELSE ForEachAddedNode(HandleAddedNode(w, Head(nodes)), Tail(nodes))

\* a slip: the removed nodes of a record are handled like the added ones
RECURSIVE HandleDomChanges_AlsoRemoved(_, _)
HandleDomChanges_AlsoRemoved(w, mutationsList) ==
    IF mutationsList = <<>> THEN w
    ELSE LET mutation == Head(mutationsList)
         IN  IF mutation.type = "childList"
             THEN HandleDomChanges_AlsoRemoved(
                      ForEachAddedNode(w, mutation.addedNodes
                                            \o mutation.removedNodes),
                      Tail(mutationsList))
             ELSE HandleDomChanges_AlsoRemoved(w, Tail(mutationsList))

\* handleDomChanges(mutationsList)
RECURSIVE HandleDomChanges(_, _)
HandleDomChanges(w, mutationsList) ==
    IF mutationsList = <<>> THEN w
    ELSE LET mutation == Head(mutationsList)
         IN  IF mutation.type = "childList" /\ Len(mutation.addedNodes) > 0
             THEN HandleDomChanges(ForEachAddedNode(w, mutation.addedNodes),
                                   Tail(mutationsList))
             ELSE HandleDomChanges(w, Tail(mutationsList))

----------------------------------------------------------------------------
(* Voice: setupVoiceCommands *)

\* the outcome of setupVoiceCommands(); startThrows: recognition.start() throws
SetupVoiceCommands(startThrows) ==
    IF platform = "unsupported"
    THEN [recognition |-> "none", starts |-> 0,
          errors |-> <<"Speech Recognition API not supported in this browser.">>]
    ELSE IF startThrows
         THEN [recognition |-> "idle", starts |-> 1,
               errors |-> <<"Could not start voice recognition:">>]
         ELSE [recognition |-> "started", starts |-> 1, errors |-> <<>>]

\* a slip: the transcript is not trimmed
Command_NoTrim(results) ==
    ToLowerCase(results[Len(results)][1].transcript)

\* event.results[last][0].transcript.trim().toLowerCase()
Command(results) ==
    LET last == Len(results)
    IN  ToLowerCase(Trim(results[last][1].transcript))

\* the body of recognition.onresult
OnResultDid(results) ==
    IF Command(results) = Str_next
    THEN [advances |-> 1, did |-> ScrollToNextReel13]
    ELSE [advances |-> 0, did |-> Did(<<>>, <<>>)]

\* the console.error line of recognition.onerror
OnErrorLog(error) ==
    IF error = "not-allowed"
    THEN "Microphone access denied. Voice commands will not work."
    ELSE "Speech recognition error:"

----------------------------------------------------------------------------
(* The record of the last step *)

\* handler: the callback that ran ("page", "platform": none, the page or the
\* platform moved); node, results, error, batch: its input; advances: calls of
\* scrollToNextReel; effects: clicks and scroll requests; errors: console.error
\* lines; starts: calls of recognition.start(); uncaught: an exception left it;
\* current: the currentVideo of Method 2 when scrollToNextReel got that far
NoOut(h) ==
    [handler |-> h, node |-> NULL, results |-> <<>>, error |-> "",
     batch |-> <<>>, effects |-> <<>>, errors |-> <<>>, starts |-> 0,
     uncaught |-> FALSE, advances |-> 0, current |-> NULL]

----------------------------------------------------------------------------
(* Inputs *)

Transcripts ==
    { <<"n", "e", "x", "t">>,
      <<"N", "e", "x", "t">>,
      <<" ", "N", "E", "X", "T", " ">>,
      <<"p", "r", "e", "v", "i", "o", "u", "s">>,
      <<"n", "e", "x", "t", " ", "o", "n", "e">> }

\* one SpeechRecognitionResult: its alternatives, best first
SpeechResults ==
    UNION { [1..k -> [transcript : Transcripts]] : k \in 1..maxAlternatives }

\* event.results of a result event
ResultLists == UNION { [1..k -> SpeechResults] : k \in 1..MaxResults }

\* result events of a session's first utterance: the command word or another
SingleResults ==
    { <<<<[transcript |-> t]>>>> :
        t \in { Str_next, <<"p", "r", "e", "v", "i", "o", "u", "s">> } }

\* event.error of an error event
ErrorCodes == {"not-allowed", "network", "no-speech"}

----------------------------------------------------------------------------
(* The page changes the DOM *)

\* a MutationRecord; `inserted` is not a field of the record: it remembers the
\* nodes of the added subtrees at the time of the insertion
MutationRecord(added, removed) ==
    [type |-> "childList", addedNodes |-> added, removedNodes |-> removed,
     inserted |-> Range(SubtreeSeq(added))]

\* the observer is registered on document.body with {childList, subtree}
Observed(target) == observing /\ InDocument(target)

RemoveFrom(s, n) == SelectSeq(s, LAMBDA x : x # n)

\* parent.appendChild(node) of a detached node
PageInsert(node, parent) ==
    /\ node # BODY
    /\ ParentElement(node) = NULL
    /\ IsElement(parent)
    /\ parent \notin Range(Subtree(node))
    /\ Observed(parent) => Len(pending) < MaxPending
    /\ children' = [children EXCEPT ![parent] = Append(@, node)]
    /\ pending' = IF Observed(parent)
                  THEN Append(pending, MutationRecord(<<node>>, <<>>))
                  ELSE pending
    /\ out' = NoOut("page")
    /\ UNCHANGED <<page, marker, listeners, observing, pc, recognition, atLoad>>

\* node.remove()
PageRemove(node) ==
    /\ ParentElement(node) # NULL
    /\ Observed(node) => Len(pending) < MaxPending
    /\ children' = [children EXCEPT ![ParentElement(node)] = RemoveFrom(@, node)]
    /\ pending' = IF Observed(node)
                  THEN Append(pending, MutationRecord(<<>>, <<node>>))
                  ELSE pending
    /\ out' = NoOut("page")
    /\ UNCHANGED <<page, marker, listeners, observing, pc, recognition, atLoad>>

----------------------------------------------------------------------------
(* The script *)

\* the wiring after the top-level code of the script ran
InitialScan ==
    LET scanned == ForEachAddListener(Wiring(marker, listeners),
                                      DocQuerySelectorAll(REEL_VIDEO_SELECTOR))
    IN  IF variant = "v12"
        THEN IF DocQuerySelector(REELS_CONTAINER_SELECTOR) # NULL
             THEN scanned
             ELSE Wiring(marker, listeners)
        ELSE scanned

\* a slip: the voice setup runs first and its start() is not in a try block,
\* so a throw ends the script before the observer and the scan
ScriptInit_VoiceFirst ==
    /\ pc = "load"
    /\ \E startThrows \in BOOLEAN :
         LET voice == IF variant = "v13"
                      THEN SetupVoiceCommands(startThrows)
                      ELSE [recognition |-> "none", starts |-> 0, errors |-> <<>>]
             aborted == voice.recognition = "idle"
         IN  /\ recognition' = voice.recognition
             /\ out' = [NoOut("init") EXCEPT !.starts = voice.starts,
                                             !.uncaught = aborted]
             /\ observing' = ~aborted
             /\ marker' = IF aborted THEN marker ELSE InitialScan.marker
             /\ listeners' = IF aborted THEN listeners ELSE InitialScan.listeners
    /\ atLoad' = Range(DocQuerySelectorAll(REEL_VIDEO_SELECTOR))
    /\ pc' = "running"
    /\ UNCHANGED <<page, children, pending>>

\* the content script is injected and its top-level code runs
ScriptInit ==
    /\ pc = "load"
    /\ \E startThrows \in BOOLEAN :
         LET voice == IF variant = "v13"
                      THEN SetupVoiceCommands(startThrows)
                      ELSE [recognition |-> "none", starts |-> 0, errors |-> <<>>]
         IN  /\ recognition' = voice.recognition
             /\ out' = [NoOut("init") EXCEPT !.errors = voice.errors,
                                             !.starts = voice.starts]
    /\ observing' = TRUE
    /\ marker' = InitialScan.marker
    /\ listeners' = InitialScan.listeners
    /\ atLoad' = Range(DocQuerySelectorAll(REEL_VIDEO_SELECTOR))
    /\ pc' = "running"
    /\ UNCHANGED <<page, children, pending>>

\* the observer callback runs with every record queued so far
MutationCallback ==
    /\ pending # <<>>
    /\ LET w == HandleDomChanges(Wiring(marker, listeners), pending)
       IN  /\ marker' = w.marker
           /\ listeners' = w.listeners
    /\ pending' = <<>>
    /\ out' = [NoOut("mutation") EXCEPT !.batch = pending]
    /\ UNCHANGED <<page, children, observing, pc, recognition, atLoad>>

\* a video's playback ends: each 'ended' listener the script attached runs
VideoEnded(video) ==
    /\ pc = "running"
    /\ tag[video] = "video"
    /\ LET did == EndedListener(video)
       IN  out' = [NoOut("ended") EXCEPT
                     !.node = video,
                     !.advances = listeners[video],
                     !.current = IF listeners[video] > 0
                                 THEN Method2Video(video) ELSE NULL,
                     !.effects = Times(listeners[video], did.effects),
                     !.errors = Times(listeners[video], did.errors)]
    /\ UNCHANGED <<page, children, marker, listeners, observing, pending, pc,
                   recognition, atLoad>>

\* a slip: the result handler calls start() after each result
OnResult_Restarts(results) ==
    /\ recognition = "started"
    /\ platform = "granted"
    /\ LET r == OnResultDid(results)
       IN  out' = [NoOut("result") EXCEPT
                     !.results = results,
                     !.advances = r.advances,
                     !.current = IF r.advances > 0
                                 THEN Method2Video(NULL) ELSE NULL,
                     !.effects = r.did.effects,
                     !.errors = r.did.errors,
                     !.starts = 1]
    /\ UNCHANGED <<page, children, marker, listeners, observing, pending, pc,
                   recognition, atLoad>>

\* recognition.onresult
OnResult(results) ==
    /\ recognition = "started"
    /\ platform = "granted"
    /\ LET r == OnResultDid(results)
       IN  out' = [NoOut("result") EXCEPT
                     !.results = results,
                     !.advances = r.advances,
                     !.current = IF r.advances > 0
                                 THEN Method2Video(NULL) ELSE NULL,
                     !.effects = r.did.effects,
                     !.errors = r.did.errors]
    /\ UNCHANGED <<page, children, marker, listeners, observing, pending, pc,
                   recognition, atLoad>>

\* a slip: the error handler restarts the session itself
OnError_Restarts(error) ==
    /\ recognition = "started"
    /\ (platform = "denied") <=> (error = "not-allowed")
    /\ recognition' = "started"
    /\ out' = [NoOut("error") EXCEPT !.error = error,
                                      !.errors = <<OnErrorLog(error)>>,
                                      !.starts = 1]
    /\ UNCHANGED <<page, children, marker, listeners, observing, pending, pc,
                   atLoad>>

\* recognition.onerror; the platform ends a session after an error
OnError(error) ==
    /\ recognition = "started"
    /\ (platform = "denied") <=> (error = "not-allowed")
    /\ recognition' = "ending"
    /\ out' = [NoOut("error") EXCEPT !.error = error,
                                      !.errors = <<OnErrorLog(error)>>]
    /\ UNCHANGED <<page, children, marker, listeners, observing, pending, pc,
                   atLoad>>

\* the platform ends the session by itself (silence, network, a final result)
RecognitionStops ==
    /\ recognition = "started"
    /\ platform = "granted"
    /\ recognition' = "ending"
    /\ out' = NoOut("platform")
    /\ UNCHANGED <<page, children, marker, listeners, observing, pending, pc,
                   atLoad>>

\* a slip: no restart once the microphone was denied
OnEnd_GivesUpWhenDenied ==
    /\ recognition = "ending"
    /\ \E startThrows \in BOOLEAN :
         IF platform = "denied"
         THEN /\ recognition' = "idle"
              /\ out' = NoOut("end")
         ELSE /\ recognition' = IF startThrows THEN "idle" ELSE "started"
              /\ out' = [NoOut("end") EXCEPT !.starts = 1,
                                              !.uncaught = startThrows]
    /\ UNCHANGED <<page, children, marker, listeners, observing, pending, pc,
                   atLoad>>

\* recognition.onend: recognition.start(), outside any try block
OnEnd ==
    /\ recognition = "ending"
    /\ \E startThrows \in BOOLEAN :
         /\ recognition' = IF startThrows THEN "idle" ELSE "started"
         /\ out' = [NoOut("end") EXCEPT !.starts = 1, !.uncaught = startThrows]
    /\ UNCHANGED <<page, children, marker, listeners, observing, pending, pc,
                   atLoad>>

----------------------------------------------------------------------------
(* Pages *)

Wide(n) == [i \in 0..n |-> 600]

\* a script-free page: nothing wired, nothing observed, no recognition session
Fresh(nodes) ==
    /\ marker = [n \in nodes |-> FALSE]
    /\ listeners = [n \in nodes |-> 0]
    /\ observing = FALSE
    /\ pending = <<>>
    /\ pc = "load"
    /\ recognition = "none"
    /\ atLoad = {}
    /\ out = NoOut("page")

----------------------------------------------------------------------------
(* DOM watcher: a page of a container or a text node (node 1) and two      *)
(* videos (nodes 2, 3) whose structure the page keeps changing, before and *)
(* after the script is injected.                                           *)

InitWatcher ==
    /\ variant \in {"v12", "v13"}
    /\ platform = "unsupported"
    /\ \E t \in (IF variant = "v12" THEN {"main", "div", "#text"}
                 ELSE {"div", "#text"}) :
         tag = (0 :> "body" @@ 1 :> t @@ 2 :> "video" @@ 3 :> "video")
    /\ ariaLabel = [n \in 0..3 |-> <<>>]
    /\ clientHeight = Wide(3)
    /\ scrollHeight = [n \in 0..3 |-> IF n = 1 THEN 2000 ELSE 600]
    /\ rectTop = [n \in 0..3 |-> IF n = 3 THEN 600 ELSE 0]
    /\ rectHeight = Wide(3)
    /\ children = [n \in 0..3 |-> <<>>]
    /\ Fresh(0..3)

NextWatcher ==
    \/ \E node \in AllNodes, parent \in AllNodes : PageInsert(node, parent)
    \/ \E node \in AllNodes : PageRemove(node)
    \/ ScriptInit
    \/ MutationCallback

SpecWatcher == InitWatcher /\ [][NextWatcher]_vars

----------------------------------------------------------------------------
(* Voice: the v1.3 script on a fixed page, with every recognition event    *)

VoiceShapes ==
    { (0 :> <<1>> @@ 1 :> <<2>> @@ 2 :> <<>> @@ 3 :> <<>>),
      (0 :> <<2, 3>> @@ 1 :> <<>> @@ 2 :> <<>> @@ 3 :> <<>>) }

InitVoice ==
    /\ variant = "v13"
    /\ platform \in {"unsupported", "denied", "granted"}
    /\ \E t \in {"main", "div"} :
         tag = (0 :> "body" @@ 1 :> t @@ 2 :> "video" @@ 3 :> "video")
    /\ \E label \in {<<>>, Str_Next} :
         ariaLabel = [n \in 0..3 |-> IF n = 1 THEN label ELSE <<>>]
    /\ clientHeight = Wide(3)
    /\ scrollHeight = [n \in 0..3 |-> IF n = 1 THEN 2000 ELSE 600]
    /\ rectTop = [n \in 0..3 |-> IF n = 3 THEN 600 ELSE 0]
    /\ rectHeight = Wide(3)
    /\ children \in VoiceShapes
    /\ Fresh(0..3)

NextVoice ==
    \/ ScriptInit
    \/ \E video \in AllNodes : VideoEnded(video)
    \/ \E results \in ResultLists : OnResult(results)
    \/ \E error \in ErrorCodes : OnError(error)
    \/ RecognitionStops
    \/ OnEnd

SpecVoice == InitVoice /\ [][NextVoice]_vars

\* the platform delivers every 'end' event it has queued
SpecVoiceFair == SpecVoice /\ WF_vars(OnEnd)

----------------------------------------------------------------------------
(* Advancement: both scripts on fixed pages drawn from a family of layouts: *)
(* a container (node 1) with videos (nodes 2, 3) and a button (node 4); on  *)
(* the last layout the videos are not in the document.                      *)

AdvanceShapes ==
    { (0 :> <<1, 4>> @@ 1 :> <<2, 3>> @@ 2 :> <<>> @@ 3 :> <<>> @@ 4 :> <<>>),
      (0 :> <<4, 1>> @@ 1 :> <<3, 2>> @@ 2 :> <<>> @@ 3 :> <<>> @@ 4 :> <<>>),
      (0 :> <<2, 1>> @@ 1 :> <<3>> @@ 2 :> <<>> @@ 3 :> <<4>> @@ 4 :> <<>>),
      (0 :> <<1, 4>> @@ 1 :> <<>> @@ 2 :> <<>> @@ 3 :> <<>> @@ 4 :> <<>>) }

ButtonLabels ==
    { <<>>, Str_Next, Str_next, <<"G", "o", " ", "N", "e", "x", "t">> }

\* <<scrollHeight, clientHeight>>
BodyGeometries == { <<600, 600>>, <<2000, 600>> }
ContainerGeometries == { <<400, 400>>, <<450, 400>>, <<451, 400>> }

\* <<top, height>>: fully visible, half visible, below the viewport, not rendered
VideoRects == { <<0, 600>>, <<300, 600>>, <<600, 600>>, <<0, 0>> }
OtherVideoRects == { <<0, 600>>, <<600, 600>> }

InitAdvance ==
    /\ variant \in {"v12", "v13"}
    /\ platform = IF variant = "v12" THEN "unsupported" ELSE "granted"
    /\ \E t \in (IF variant = "v12" THEN {"main", "div"} ELSE {"div"}) :
         tag = (0 :> "body" @@ 1 :> t @@ 2 :> "video" @@ 3 :> "video"
                @@ 4 :> "div")
    /\ \E l1 \in {<<>>, Str_Next}, l4 \in ButtonLabels :
         ariaLabel = [n \in 0..4 |-> IF n = 1 THEN l1 ELSE IF n = 4 THEN l4
                                     ELSE <<>>]
    /\ \E g0 \in BodyGeometries, g1 \in ContainerGeometries :
         /\ scrollHeight = [n \in 0..4 |-> IF n = 0 THEN g0[1]
                                           ELSE IF n = 1 THEN g1[1] ELSE 600]
         /\ clientHeight = [n \in 0..4 |-> IF n = 0 THEN g0[2]
                                           ELSE IF n = 1 THEN g1[2] ELSE 600]
    /\ \E r2 \in VideoRects, r3 \in OtherVideoRects :
         /\ rectTop = [n \in 0..4 |-> IF n = 2 THEN r2[1]
                                      ELSE IF n = 3 THEN r3[1] ELSE 0]
         /\ rectHeight = [n \in 0..4 |-> IF n = 2 THEN r2[2]
                                         ELSE IF n = 3 THEN r3[2] ELSE 600]
    /\ children \in AdvanceShapes
    /\ Fresh(0..4)

NextAdvance ==
    \/ ScriptInit
    \/ \E video \in AllNodes : VideoEnded(video)
    \/ \E results \in SingleResults : OnResult(results)

SpecAdvance == InitAdvance /\ [][NextAdvance]_vars

----------------------------------------------------------------------------
(* The ancestor walk: both scripts on a page where the video (the last     *)
(* node) sits at the bottom of a chain of elements two longer than the     *)
(* walk: its parent is level 1, node 1 is level 16 and the body level 17.  *)
(* Up to two of the ancestors overflow, by 50 or by 51 pixels.             *)

DeepVideo == MaxLevels + 2

DeepOverflows == {50, 51}

InitDeep ==
    /\ variant \in {"v12", "v13"}
    /\ platform = IF variant = "v12" THEN "unsupported" ELSE "granted"
    /\ tag = [n \in 0..DeepVideo |->
                IF n = 0 THEN "body" ELSE IF n = 1 THEN "main"
                ELSE IF n = DeepVideo THEN "video" ELSE "div"]
    /\ ariaLabel = [n \in 0..DeepVideo |-> <<>>]
    /\ clientHeight = Wide(DeepVideo)
    /\ \E a \in 0..(DeepVideo - 1), b \in 0..(DeepVideo - 1) :
         \E oa \in DeepOverflows, ob \in DeepOverflows :
            scrollHeight = [n \in 0..DeepVideo |->
                              IF n = a THEN 600 + oa
                              ELSE IF n = b THEN 600 + ob ELSE 600]
    /\ rectTop = [n \in 0..DeepVideo |-> 0]
    /\ rectHeight = Wide(DeepVideo)
    /\ children = [n \in 0..DeepVideo |->
                     IF n = DeepVideo THEN <<>> ELSE <<n + 1>>]
    /\ Fresh(0..DeepVideo)

SpecDeep == InitDeep /\ [][NextAdvance]_vars

----------------------------------------------------------------------------
(* The whole program: every callback and every page change interleaved, on *)
(* a page of a container (node 1) and one video (node 2).                  *)

Init ==
    /\ variant \in {"v12", "v13"}
    /\ platform \in (IF variant = "v12" THEN {"unsupported"}
                     ELSE {"unsupported", "denied", "granted"})
    /\ \E t \in (IF variant = "v12" THEN {"main", "div"} ELSE {"div"}) :
         tag = (0 :> "body" @@ 1 :> t @@ 2 :> "video")
    /\ ariaLabel = [n \in 0..2 |-> <<>>]
    /\ clientHeight = Wide(2)
    /\ scrollHeight = [n \in 0..2 |-> IF n = 1 THEN 2000 ELSE 600]
    /\ rectTop = [n \in 0..2 |-> 0]
    /\ rectHeight = Wide(2)
    /\ children = [n \in 0..2 |-> <<>>]
    /\ Fresh(0..2)

Next ==
    \/ \E node \in AllNodes, parent \in AllNodes : PageInsert(node, parent)
    \/ \E node \in AllNodes : PageRemove(node)
    \/ ScriptInit
    \/ MutationCallback
    \/ \E video \in AllNodes : VideoEnded(video)
    \/ \E results \in SingleResults : OnResult(results)
    \/ \E error \in ErrorCodes : OnError(error)
    \/ RecognitionStops
    \/ OnEnd

Spec == Init /\ [][Next]_vars

----------------------------------------------------------------------------
(* Vocabulary of the properties, stated on the DOM rather than on the script *)

DocumentOrder == Subtree(BODY)

Position(n) == CHOOSE i \in DOMAIN DocumentOrder : DocumentOrder[i] = n

\* the first node of a non-empty set of document nodes, in document order
FirstOf(S) == CHOOSE n \in S : \A m \in S : Position(n) <= Position(m)

\* the labels of the modelled pages that contain "Next" with a capital N
LabelsWithNext == { Str_Next, <<"G", "o", " ", "N", "e", "x", "t">> }

NextLabelled == { n \in Range(DocumentOrder) : ariaLabel[n] \in LabelsWithNext }

DocumentVideos == { n \in Range(DocumentOrder) : tag[n] = "video" }

\* the ancestors of n, nearest first
RECURSIVE Ancestors(_)
Ancestors(n) ==
    IF ParentElement(n) = NULL THEN <<>>
    ELSE <<ParentElement(n)>> \o Ancestors(ParentElement(n))

Overflows(a) == scrollHeight[a] - clientHeight[a] > 50

\* the levels (1: the parent) of the ancestors of v that overflow, up to level 15
QualifyingLevels(v) ==
    { i \in DOMAIN Ancestors(v) : i <= 15 /\ Overflows(Ancestors(v)[i]) }

NearestQualifying(v) ==
    Ancestors(v)[CHOOSE i \in QualifyingLevels(v) :
                   \A j \in QualifyingLevels(v) : i <= j]

\* the pixels of v inside the viewport [0, innerHeight]
Overlap(v) ==
    LET lo == IF rectTop[v] > 0 THEN rectTop[v] ELSE 0
        hi == IF rectTop[v] + rectHeight[v] < innerHeight
              THEN rectTop[v] + rectHeight[v] ELSE innerHeight
    IN  IF hi > lo THEN hi - lo ELSE 0

Visible(v) == rectHeight[v] > 0 /\ Overlap(v) > 0

\* u shows a greater fraction of its height than v
MoreVisible(u, v) == Overlap(u) * rectHeight[v] > Overlap(v) * rectHeight[u]

MostVisible ==
    { v \in DocumentVideos :
        Visible(v) /\ \A u \in DocumentVideos : Visible(u) => ~MoreVisible(u, v) }

\* scrollToNextReel ran once in the last step
AdvanceRan == out.handler \in {"ended", "result"} /\ out.advances = 1

\* the video Method 2 starts from: the one that ended in v1.2, the first of
\* the most visible ones in v1.3 (NULL: none)
CurrentVideo ==
    IF variant = "v12" THEN out.node
    ELSE IF MostVisible = {} THEN NULL ELSE FirstOf(MostVisible)

SmoothScrollOf(a) ==
    [type |-> "scrollBy", node |-> a, top |-> clientHeight[a], left |-> 0,
     behavior |-> "smooth"]

IsWindowScroll(e) == e.type = "window.scrollBy" /\ e.top = innerHeight

----------------------------------------------------------------------------
(* Claims on advancement, under SpecAdvance *)

\* C1: when some element of the document has an aria-label containing "Next",
\* a run of scrollToNextReel (either script, from a video end or from the
\* voice command) clicks the first such element in document order and
\* requests no scroll at all.
C1_ClickFirstNext ==
    (AdvanceRan /\ NextLabelled # {})
        => out.effects = <<Click(FirstOf(NextLabelled))>>

\* two labelled elements, the later-numbered one first in the document
C1_Witness ==
    /\ AdvanceRan
    /\ variant = "v12"
    /\ NextLabelled = {1, 4}
    /\ Position(4) < Position(1)
    /\ out.effects = <<Click(4)>>

\* C2 as claimed: no "Next" label, and some video (the one that ended, for
\* the v1.2 listener) has an overflowing ancestor within 15 levels: one
\* smooth scroll of such an ancestor by its clientHeight, nothing else.
C2_AnyVideoAncestorScrolled ==
    LET candidates == IF variant = "v12" THEN {out.node} ELSE DocumentVideos
    IN  (/\ AdvanceRan
         /\ NextLabelled = {}
         /\ \E v \in candidates : QualifyingLevels(v) # {})
            => \E v \in candidates : \E i \in QualifyingLevels(v) :
                  out.effects = <<SmoothScrollOf(Ancestors(v)[i])>>

\* C2 amended: no "Next" label, and the current video (the one that ended in
\* v1.2; in v1.3 the first video in document order among those of the
\* greatest visibility ratio, if that ratio is positive) has an overflowing
\* ancestor within 15 levels: exactly one request, a smooth scroll of the
\* nearest such ancestor by its clientHeight, and no window scroll.
C2_CurrentVideoAncestorScrolled ==
    (/\ AdvanceRan
     /\ NextLabelled = {}
     /\ CurrentVideo # NULL
     /\ QualifyingLevels(CurrentVideo) # {})
        => out.effects = <<SmoothScrollOf(NearestQualifying(CurrentVideo))>>

\* the voice command, two videos, container and body both overflow: the
\* container of the visible video is scrolled by its own clientHeight
C2_Witness ==
    /\ AdvanceRan
    /\ variant = "v13"
    /\ out.handler = "result"
    /\ NextLabelled = {}
    /\ Overflows(BODY)
    /\ CurrentVideo # NULL
    /\ ParentElement(CurrentVideo) = 1
    /\ out.effects = <<SmoothScrollOf(1)>>
    /\ clientHeight[1] # clientHeight[BODY]

\* C3: no "Next" label and no overflowing ancestor within 15 levels of the
\* current video (or no current video): the window is scrolled by
\* window.innerHeight, in both scripts.
C3_WindowScrolled ==
    (/\ AdvanceRan
     /\ NextLabelled = {}
     /\ (CurrentVideo = NULL \/ QualifyingLevels(CurrentVideo) = {}))
        => /\ Len(out.effects) = 1
           /\ IsWindowScroll(out.effects[1])

----------------------------------------------------------------------------
(* Claims on the DOM watcher, under SpecWatcher *)

Wired(v) == marker[v] /\ listeners[v] = 1

\* the records of the batch the last mutation callback got that report v: it
\* is an added node or, when the callback runs, inside an added subtree
ReportsOf(v) ==
    { i \in DOMAIN out.batch : v \in Range(SubtreeSeq(out.batch[i].addedNodes)) }

\* C4: after any sequence of the initial scan and observer callbacks no
\* element carries more than one 'ended' listener of the script, and calling
\* addListenerToVideo twice on a video leaves it with exactly one.
C4_AtMostOneListener ==
    /\ \A n \in AllNodes : listeners[n] <= 1
    /\ \A v \in AllNodes :
         tag[v] = "video" =>
           LET once == AddListenerToVideo(Wiring(marker, listeners), v)
               twice == AddListenerToVideo(once, v)
           IN  once.listeners[v] = 1 /\ twice.listeners[v] = 1

\* one batch reported the same video twice (overlapping added subtrees), in the
\* script whose listener is a fresh function each time
C4_Witness ==
    /\ out.handler = "mutation"
    /\ variant = "v13"
    /\ \E v \in AllNodes :
         /\ tag[v] = "video"
         /\ Cardinality(ReportsOf(v)) >= 2
         /\ listeners[v] = 1

\* C5 as claimed: every video that was inserted in the batch, as an added
\* node or anywhere inside an added subtree, is wired when the callback
\* that got the batch returns.
C5_InsertedVideosWired ==
    out.handler = "mutation" =>
        \A i \in DOMAIN out.batch : \A n \in out.batch[i].inserted :
            tag[n] = "video" => Wired(n)

\* C5 amended: when the callback returns, every added node that is a video is
\* wired, and so is every video that is, when the callback runs, a descendant
\* at any depth of an added element that is not itself a video.
C5_AddedVideosWired ==
    out.handler = "mutation" =>
        \A i \in DOMAIN out.batch :
            \A k \in DOMAIN out.batch[i].addedNodes :
                LET node == out.batch[i].addedNodes[k]
                IN  IF tag[node] = "video"
                    THEN Wired(node)
                    ELSE \A n \in Range(Descendants(node)) :
                            tag[n] = "video" => Wired(n)

\* a container was inserted after load with a video two levels below it
C5_Witness ==
    /\ out.handler = "mutation"
    /\ Len(out.batch) = 1
    /\ out.batch[1].addedNodes = <<1>>
    /\ ParentElement(3) = 1
    /\ ParentElement(2) = 3
    /\ atLoad = {}
    /\ Wired(2)
    /\ Wired(3)

\* C6: when the top-level code of the script has run, every video that was
\* in the document at load has an 'ended' listener, whatever else the page
\* holds.
C6_LoadVideosWired ==
    out.handler = "init" => \A v \in atLoad : listeners[v] >= 1

----------------------------------------------------------------------------
(* Claims on the voice trigger, under SpecVoice, SpecVoiceFair and Spec *)

\* the transcripts that are "next" up to case and surrounding whitespace
SpokenNext ==
    { <<"n", "e", "x", "t">>, <<"N", "e", "x", "t">>,
      <<" ", "N", "E", "X", "T", " ">> }

\* the transcript of the best alternative of the last result of the event
Heard == out.results[Len(out.results)][1].transcript

\* C7: a result event runs scrollToNextReel exactly once if the best
\* alternative of its last result is "next" up to case and surrounding
\* whitespace (with a "Next" button on the page: that button is clicked), and
\* otherwise does nothing to the page: no click, no scroll, no start().
C7_VoiceCommand ==
    out.handler = "result" =>
        IF Heard \in SpokenNext
        THEN /\ out.advances = 1
             /\ NextLabelled # {} => out.effects = <<Click(FirstOf(NextLabelled))>>
        ELSE /\ out.advances = 0
             /\ out.effects = <<>>
             /\ out.starts = 0

\* " NEXT " heard last, after another utterance, with a button on the page
C7_Witness ==
    /\ out.handler = "result"
    /\ Len(out.results) = 2
    /\ out.results[1][1].transcript \notin SpokenNext
    /\ Heard = <<" ", "N", "E", "X", "T", " ">>
    /\ out.advances = 1
    /\ out.effects = <<Click(1)>>

\* C8: an ended session is always followed by the end handler, which calls
\* start() once, whatever ended the session; nothing else takes a session out
\* of the ended state, and no count or delay limits the restarts.
C8_RestartOnEnd ==
    /\ [](recognition = "ending" => ENABLED OnEnd)
    /\ [][(recognition = "ending" /\ recognition' # "ending")
            => (out'.handler = "end" /\ out'.starts = 1)]_vars
    /\ (recognition = "ending") ~> (out.handler = "end" /\ out.starts = 1)

\* the session runs again after the end that followed a denied microphone
C8_Witness ==
    /\ out.handler = "end"
    /\ out.starts = 1
    /\ recognition = "started"
    /\ platform = "denied"

\* C9: the error handler logs one line, the denial line for 'not-allowed' and
\* the generic line for every other error, and never calls start(); start() is
\* called only by the top-level code and by the end handler.
C9_ErrorNeverRestarts ==
    /\ out.handler = "error" =>
         /\ out.starts = 0
         /\ recognition # "started"
         /\ out.errors =
              <<IF out.error = "not-allowed"
                THEN "Microphone access denied. Voice commands will not work."
                ELSE "Speech recognition error:">>
    /\ out.starts > 0 => out.handler \in {"init", "end"}

C9_Witness ==
    /\ out.handler = "error"
    /\ out.error = "not-allowed"
    /\ platform = "denied"
    /\ out.starts = 0
    /\ recognition = "ending"

\* C10: in the voice-enabled script, whatever the voice path did (no
\* capability, start() threw, microphone denied, any error), the observer is
\* registered, every video of the document at load carries its listener, and
\* an 'ended' event on such a video runs scrollToNextReel once.
C10_VideoEndSurvivesVoice ==
    (variant = "v13" /\ pc = "running") =>
        /\ observing
        /\ \A v \in atLoad : Wired(v)
        /\ (out.handler = "ended" /\ out.node \in atLoad) => out.advances = 1

\* the microphone is denied and a restart threw: a video end still advances
C10_Witness ==
    /\ platform = "denied"
    /\ recognition = "idle"
    /\ out.handler = "ended"
    /\ out.node \in atLoad
    /\ out.advances = 1
    /\ out.effects # <<>>

----------------------------------------------------------------------------
(* Claims on the current video and the ancestor walk *)

\* the visibility ratios of u and v are equal
EquallyVisible(u, v) == Overlap(u) * rectHeight[v] = Overlap(v) * rectHeight[u]

\* C12: when scrollToNextReel of the voice-enabled script gets to Method 2 (no
\* "Next" label), its current video is the first in document order of the
\* videos of the document with the greatest visibility ratio, provided that
\* ratio is positive, and no video otherwise: a video with ratio 0 (or with
\* no height) is never the current video.
C12_MostVisibleFirst ==
    (AdvanceRan /\ variant = "v13" /\ NextLabelled = {}) =>
        /\ out.current = (IF MostVisible = {} THEN NULL ELSE FirstOf(MostVisible))
        /\ out.current # NULL => Visible(out.current)

\* both videos fully visible, the one numbered 3 first in the document: it
\* is the current video
C12_Witness ==
    /\ AdvanceRan
    /\ variant = "v13"
    /\ NextLabelled = {}
    /\ DocumentVideos = {2, 3}
    /\ Visible(2)
    /\ EquallyVisible(2, 3)
    /\ Position(3) < Position(2)
    /\ out.current = 3

\* C13: when a video's 'ended' event runs scrollToNextReel and no "Next" label
\* exists, the current video of Method 2 - the one whose parent the ancestor
\* walk starts from - is the video that ended, in both scripts.
C13_WalkStartsAtEndedVideo ==
    (out.handler = "ended" /\ out.advances = 1 /\ NextLabelled = {})
        => out.current = out.node

\* C14: when Method 2 has a current video, the container it scrolls is the
\* nearest ancestor of that video, among the first 15 (the parent is the
\* first), whose scrollHeight exceeds its clientHeight by more than 50; when
\* none of the first 15 does, no container is scrolled, whatever the
\* ancestors from the 16th on look like.
C14_NearestWithinFifteen ==
    (AdvanceRan /\ NextLabelled = {} /\ out.current # NULL) =>
        IF QualifyingLevels(out.current) # {}
        THEN out.effects = <<SmoothScrollOf(NearestQualifying(out.current))>>
        ELSE \A i \in DOMAIN out.effects : out.effects[i].type # "scrollBy"

\* the 16th ancestor overflows by 51, a nearer one by exactly 50: neither is
\* scrolled
C14_Witness ==
    /\ AdvanceRan
    /\ NextLabelled = {}
    /\ out.current # NULL
    /\ Len(Ancestors(out.current)) >= 16
    /\ scrollHeight[Ancestors(out.current)[16]]
         = clientHeight[Ancestors(out.current)[16]] + 51
    /\ \E i \in 1..15 :
         scrollHeight[Ancestors(out.current)[i]]
           = clientHeight[Ancestors(out.current)[i]] + 50
    /\ \A i \in DOMAIN out.effects : out.effects[i].type # "scrollBy"

\* C15: in the voice-enabled script, with no "Next" label and no video of
\* positive visibility ratio in the document (no video at all, or every video
\* at ratio 0), scrollToNextReel requests exactly one scroll, of the window by
\* window.innerHeight, and scrolls no container, even when a video has an
\* overflowing ancestor.
C15_NoVisibleVideoScrollsWindow ==
    (/\ AdvanceRan
     /\ variant = "v13"
     /\ NextLabelled = {}
     /\ \A v \in DocumentVideos : ~Visible(v))
        => /\ out.current = NULL
           /\ Len(out.effects) = 1
           /\ IsWindowScroll(out.effects[1])
           /\ out.effects[1].left = 0

\* the voice command on a page whose videos are all outside the viewport or
\* unrendered, inside a container that overflows: the window is scrolled
C15_Witness ==
    /\ AdvanceRan
    /\ variant = "v13"
    /\ out.handler = "result"
    /\ NextLabelled = {}
    /\ DocumentVideos = {2, 3}
    /\ \A v \in DocumentVideos : ~Visible(v) /\ QualifyingLevels(v) # {}
    /\ out.effects = <<WindowScrollBy(0, innerHeight)>>

----------------------------------------------------------------------------
(* Claims on the marker and on what the observer callback touches *)

\* C16: between callbacks, in every interleaving of page changes, observer,
\* ended and recognition callbacks, an element's marker is set exactly when
\* the script has attached one 'ended' listener to it (none otherwise), and
\* no step clears a marker or changes the listeners of a marked element,
\* whether or not the element is still in the document.
C16_MarkerIffOneListener ==
    /\ [](\A n \in AllNodes :
            /\ listeners[n] \in {0, 1}
            /\ marker[n] <=> listeners[n] = 1)
    /\ [][\A n \in AllNodes :
            marker[n] => (marker'[n] /\ listeners'[n] = listeners[n])]_vars

\* a wired video was taken out of the document and the observer callback ran
\* on that removal: it keeps its marker and its listener
C16_Witness ==
    /\ out.handler = "mutation"
    /\ \E i \in DOMAIN out.batch : out.batch[i].removedNodes = <<2>>
    /\ ~InDocument(2)
    /\ marker[2]
    /\ listeners[2] = 1

\* no record of the batch has an element among its added nodes
NoElementAdded(batch) ==
    \A i \in DOMAIN batch : \A k \in DOMAIN batch[i].addedNodes :
        tag[batch[i].addedNodes[k]] = "#text"

\* C17: an observer callback whose batch has no added element (removals
\* only, added text nodes only) changes no marker and no listener, and no
\* observer callback ever runs scrollToNextReel, clicks or scrolls.
C17_OnlyInsertionsWire ==
    /\ [](out.handler = "mutation" =>
            /\ out.advances = 0
            /\ out.effects = <<>>)
    /\ [][(out'.handler = "mutation" /\ NoElementAdded(out'.batch))
            => (marker' = marker /\ listeners' = listeners)]_vars

\* a batch of the removal of a video that was never wired and of the
\* insertion of a text node: the video stays unwired
C17_Witness ==
    /\ out.handler = "mutation"
    /\ Len(out.batch) = 2
    /\ NoElementAdded(out.batch)
    /\ \E i \in DOMAIN out.batch : out.batch[i].addedNodes = <<1>>
    /\ \E i \in DOMAIN out.batch :
         /\ out.batch[i].removedNodes = <<2>>
         /\ ~marker[2]
         /\ listeners[2] = 0

----------------------------------------------------------------------------
(* Claims on start failures and on the session's life, under SpecVoice *)

\* C11: whenever a callback of the script calls recognition.start() - the
\* top-level code or the end handler - a synchronous throw of that call is
\* caught inside the callback: no exception leaves the callback.
C11_StartThrowCaught ==
    out.starts > 0 => ~out.uncaught

\* C18: every call of recognition.start() is made while the session is not
\* started - by the top-level code, once, when the session object is new, or
\* by the end handler, when the session has just ended - and one call at a
\* time; the session object is created by the top-level code only, and that
\* code runs once.
C18_StartOnlyWhenStopped ==
    /\ [][out'.starts > 0 =>
            /\ out'.starts = 1
            /\ \/ out'.handler = "init" /\ pc = "load" /\ recognition = "none"
               \/ out'.handler = "end" /\ recognition = "ending"]_vars
    /\ [][recognition' # recognition =>
            \/ recognition = "none" /\ pc = "load" /\ out'.handler = "init"
            \/ recognition # "none" /\ recognition' # "none"]_vars

\* with the microphone granted, a session that ended is started again by the
\* end handler
C18_Witness ==
    /\ out.handler = "end"
    /\ out.starts = 1
    /\ ~out.uncaught
    /\ recognition = "started"
    /\ platform = "granted"

----------------------------------------------------------------------------
(* Claim on the scroll behaviour, under SpecAdvance *)

\* C19: every scroll scrollToNextReel requests, of a container or of the
\* window, is requested with behavior 'smooth'.
C19_AllScrollsSmooth ==
    AdvanceRan =>
        \A i \in DOMAIN out.effects :
            out.effects[i].type \in {"scrollBy", "window.scrollBy"}
                => out.effects[i].behavior = "smooth"

====
